---- MODULE Spec2Model ----
(***************************************************************************)
(* The eWaterCycle configuration object (ewatercycle/config/__init__.py):  *)
(* a pydantic (v1) model with validate_assignment and extra = "forbid",    *)
(* two root validators, one pre-validator, file loading, reload/reset,     *)
(* field-by-field overwrite, YAML dump and the start-up source lookup.     *)
(*                                                                         *)
(* A path is a sequence of segments: <<"/", "d">> is /d, <<".">> is the    *)
(* current directory, <<"~">> is the home shorthand, <<"a", "c.yaml">> is  *)
(* the relative path a/c.yaml.  None is the empty sequence.                *)
(***************************************************************************)
EXTENDS Naturals, Sequences, FiniteSets, TLC

VARIABLES cfg, userKind, sysKind, USER_CONFIG, pc, last

vars == <<cfg, userKind, sysKind, USER_CONFIG, pc, last>>

\* Largest number of keyword arguments given to one direct construction.
MaxKeys == 2

None == <<>>

\* ------------------------------------------------------------ filesystem

HOME == <<"/", "home">>
CWD == <<"/", "w">>

\* os.environ.get("XDG_CONFIG_HOME", Path.home() / ".config")
XDG_CONFIG_HOME == HOME \o <<".config">>

FILENAME == "ewatercycle.yaml"

USER_HOME_CONFIG == XDG_CONFIG_HOME \o <<"ewatercycle">> \o <<FILENAME>>

SYSTEM_CONFIG == <<"/", "etc">> \o <<FILENAME>>

SOURCES == <<USER_HOME_CONFIG, SYSTEM_CONFIG>>

\* A configuration file in the working directory, and one with a bad value.
MY_CONFIG == CWD \o <<"my.yaml">>
BAD_CONFIG == CWD \o <<"bad.yaml">>

\* The directory tree.  /w/~ is a directory literally named "~".
StaticDirs ==
    { <<"/">>, CWD, HOME, <<"/", "d">>, CWD \o <<"~">>,
      <<"/", "p">>, <<"/", "p", "a">>, <<"/", "etc">> }

StaticFiles == { <<"/", "p", "a", "c.yaml">>, MY_CONFIG, BAD_CONFIG }

KindOf(p) ==
    IF p = USER_HOME_CONFIG THEN userKind
    ELSE IF p = SYSTEM_CONFIG THEN sysKind
    ELSE IF p \in StaticDirs THEN "dir"
    ELSE IF p \in StaticFiles THEN "file"
    ELSE "absent"

IsAbsolute(p) == p # None /\ Head(p) = "/"

\* Path.expanduser()
ExpandUser(p) == IF p # None /\ Head(p) = "~" THEN HOME \o Tail(p) ELSE p

\* Path.resolve(): absolute against the working directory, "." dropped.
Resolve(p) ==
    IF IsAbsolute(p) THEN p
    ELSE CWD \o SelectSeq(p, LAMBDA s : s # ".")

\* parent.joinpath(p)
JoinPath(parent, p) == IF IsAbsolute(p) THEN p ELSE parent \o p

\* ewatercycle.util.to_absolute_path(input_path, parent)
ToAbsolutePath(p, parent) ==
    IF parent # None THEN Resolve(JoinPath(parent, p))
    ELSE Resolve(ExpandUser(p))

Exists(p) == p # None /\ KindOf(Resolve(p)) # "absent"
IsDir(p) == p # None /\ KindOf(Resolve(p)) = "dir"
IsFile(p) == p # None /\ KindOf(Resolve(p)) = "file"

\* ------------------------------------------------------- the model class

ContainerEngine == {"docker", "apptainer", "singularity"}

\* The declared fields, in declaration order (self.dict().keys()).
FieldOrder ==
    << "grdc_location", "container_engine", "apptainer_dir", "singularity_dir",
       "output_dir", "parameterset_dir", "parameter_sets", "ewatercycle_config" >>

FieldNames == { FieldOrder[i] : i \in 1..Len(FieldOrder) }

DirectoryFields ==
    { "grdc_location", "apptainer_dir", "output_dir", "parameterset_dir" }

\* The fields the pre-validator expand_user_in_paths is registered for.
ExpandedFields == DirectoryFields \cup { "ewatercycle_config" }

OptionalFields == { "singularity_dir", "ewatercycle_config" }

\* Field defaults; an Optional field without a default defaults to None.
Default(name) ==
    CASE name \in DirectoryFields -> <<".">>
      [] name = "container_engine" -> "docker"
      [] name = "parameter_sets" -> {}
      [] OTHER -> None

\* A values dict of the validation: v holds a value for every name in has.
Get(values, key, default) ==
    IF key \in values.has THEN values.v[key] ELSE default

Put(values, key, value) ==
    [v |-> [values.v EXCEPT ![key] = value], has |-> values.has \cup {key}]

\* mapping.get(key, default) of a keyword or YAML mapping.
Lookup(mapping, key, default) ==
    IF key \in DOMAIN mapping THEN mapping[key] ELSE default

\* A keyword or YAML mapping with one more key.
With(mapping, key, value) ==
    [k \in DOMAIN mapping \cup {key} |-> IF k = key THEN value ELSE mapping[k]]

\* @validator(..., pre=True) expand_user_in_paths
ExpandUserInPaths(name, value) ==
    IF name \in ExpandedFields THEN ExpandUser(value) ELSE value

\* A raw mapping is promoted to a ParameterSet; name defaults to "".
PromoteParameterSet(raw) ==
    [ name |-> IF "name" \in DOMAIN raw THEN raw.name ELSE "",
      directory |-> raw.directory,
      config |-> raw.config ]

\* The type/kind check of one field, after its pre-validator.
ValidateField(name, value) ==
    LET v == ExpandUserInPaths(name, value) IN
    CASE name \in DirectoryFields -> [ok |-> IsDir(v), v |-> v]
      [] name = "singularity_dir" -> [ok |-> v = None \/ IsDir(v), v |-> v]
      [] name = "ewatercycle_config" -> [ok |-> v = None \/ IsFile(v), v |-> v]
      [] name = "container_engine" -> [ok |-> v \in ContainerEngine, v |-> v]
      [] name = "parameter_sets" ->
            [ ok |-> TRUE,
              v |-> { [key |-> e.key, ps |-> PromoteParameterSet(e.ps)] : e \in v } ]

\* The warning's source when no warning was emitted, and the literal default
\* of values.get("ewatercycle_config", "in-memory object").
NoWarning == <<"no warning">>
InMemoryObject == <<"in-memory object">>

\* singularity_dir_is_deprecated without the statement that clears
\* values["singularity_dir"].
SingularityDirKept(values) ==
    LET singularity_dir == Get(values, "singularity_dir", None) IN
    IF singularity_dir # None
    THEN [ values |-> Put(values, "apptainer_dir", singularity_dir),
           warnFile |-> Get(values, "ewatercycle_config", InMemoryObject) ]
    ELSE [ values |-> values, warnFile |-> NoWarning ]

\* @root_validator singularity_dir_is_deprecated
SingularityDirIsDeprecated(values) ==
    LET singularity_dir == Get(values, "singularity_dir", None) IN
    IF singularity_dir # None
    THEN [ values |-> Put(Put(values, "apptainer_dir", singularity_dir),
                          "singularity_dir", None),
           warnFile |-> Get(values, "ewatercycle_config", InMemoryObject) ]
    ELSE [ values |-> values, warnFile |-> NoWarning ]

\* ParameterSet.make_absolute(parameterset_dir)
MakeAbsolute(ps, parameterset_dir) ==
    [ ps EXCEPT
        !.directory = IF IsAbsolute(@) THEN @
                      ELSE ToAbsolutePath(@, parameterset_dir),
        !.config = IF IsAbsolute(@) THEN @
                   ELSE ToAbsolutePath(@, parameterset_dir) ]

\* @root_validator prepend_root_to_parameterset_paths
PrependRootToParametersetPaths(values) ==
    IF "parameterset_dir" \notin values.has
    THEN [values |-> values, exc |-> "KeyError"]
    ELSE
      LET parameterset_dir == values.v["parameterset_dir"]
          parameter_sets == Get(values, "parameter_sets", {})
          resolved ==
            { [ key |-> e.key,
                ps |-> MakeAbsolute([e.ps EXCEPT !.name = e.key], parameterset_dir) ]
              : e \in parameter_sets }
      IN IF \A e \in resolved : Exists(e.ps.directory) /\ Exists(e.ps.config)
         THEN [ values |-> IF "parameter_sets" \in values.has
                           THEN Put(values, "parameter_sets", resolved)
                           ELSE values,
                exc |-> "none" ]
         ELSE [values |-> values, exc |-> "AssertionError"]

\* The field loop of pydantic's validate_model: a field that is not supplied
\* takes its default unvalidated; a supplied one is validated and is left
\* out of values when it fails.
ValidateFields(input) ==
    LET failed == { name \in FieldNames \cap DOMAIN input :
                      ~ValidateField(name, input[name]).ok }
    IN [ v |-> [ name \in FieldNames |->
                   IF name \notin DOMAIN input THEN Default(name)
                   ELSE IF name \in failed THEN Default(name)
                   ELSE ValidateField(name, input[name]).v ],
         has |-> FieldNames \ failed ]

\* Configuration(**input): fields, extra = "forbid", then both root
\* validators (skip_on_failure is off, so they run after field errors too).
\* AssertionError is collected into the ValidationError; KeyError is not.
ValidateModel(input) ==
    LET f == ValidateFields(input)
        extra == (DOMAIN input) \ FieldNames
        dep == SingularityDirIsDeprecated(f)
        pre == PrependRootToParametersetPaths(dep.values)
    IN [ error |-> IF pre.exc = "KeyError" THEN "KeyError"
                   ELSE IF f.has # FieldNames \/ extra # {} \/ pre.exc = "AssertionError"
                        THEN "ValidationError"
                        ELSE "none",
         inst |-> pre.values.v,
         warnFile |-> dep.warnFile ]

\* BaseModel.__setattr__ with validate_assignment: an unknown name is a
\* plain ValueError; the field is validated, then both root validators run
\* on the instance's values with the new one; on success the whole __dict__
\* is replaced.
SetAttr(self, name, value) ==
    IF name \notin FieldNames
    THEN [error |-> "ValueError", inst |-> self, warnFile |-> NoWarning]
    ELSE
      LET r == ValidateField(name, value) IN
      IF ~r.ok
      THEN [error |-> "ValidationError", inst |-> self, warnFile |-> NoWarning]
      ELSE
        LET dep == SingularityDirIsDeprecated(
                     Put([v |-> self, has |-> FieldNames], name, r.v))
            pre == PrependRootToParametersetPaths(dep.values)
        IN IF pre.exc # "none"
           THEN [error |-> "ValidationError", inst |-> self, warnFile |-> dep.warnFile]
           ELSE [error |-> "none", inst |-> pre.values.v, warnFile |-> dep.warnFile]

\* ---------------------------------------------------------------- files

\* A missing file and a directory given to load_from_file.
NO_SUCH_FILE == <<"/", "no", "such.yaml">>

XEntry(directory, config) ==
    [key |-> "x", ps |-> [directory |-> directory, config |-> config]]

\* The YAML mapping each configuration file holds.
Content(path) ==
    CASE path = USER_HOME_CONFIG ->
            [ k \in {"apptainer_dir", "parameterset_dir", "parameter_sets"} |->
                CASE k = "apptainer_dir" -> <<"~">>
                  [] k = "parameterset_dir" -> <<"/", "p">>
                  [] k = "parameter_sets" -> { XEntry(<<"a">>, <<"a", "c.yaml">>) } ]
      [] path = SYSTEM_CONFIG ->
            [ k \in {"container_engine", "singularity_dir"} |->
                CASE k = "container_engine" -> "singularity"
                  [] k = "singularity_dir" -> <<"/", "d">> ]
      [] path = MY_CONFIG ->
            [ k \in {"singularity_dir"} |-> <<"~">> ]
      [] path = BAD_CONFIG ->
            [ k \in {"parameterset_dir"} |-> <<"/", "no">> ]

\* _read_config_file: the mapping, or the error open() raises.
ReadConfigFile(config_file) ==
    LET path == ToAbsolutePath(config_file, None) IN
    IF ~Exists(path) THEN [error |-> "OSError", mapping |-> <<>>]
    ELSE IF IsDir(path) THEN [error |-> "IsADirectoryError", mapping |-> <<>>]
    ELSE [error |-> "none", mapping |-> Content(path)]

\* Configuration._load_user_config: Configuration(ewatercycle_config=filename,
\* **mapping); a ValidationError is re-raised, anything else propagates.
LoadUserConfig(filename) ==
    LET m == ReadConfigFile(filename) IN
    IF m.error # "none"
    THEN [error |-> m.error, inst |-> <<>>, warnFile |-> NoWarning]
    ELSE IF "ewatercycle_config" \in DOMAIN m.mapping
    THEN [error |-> "TypeError", inst |-> <<>>, warnFile |-> NoWarning]
    ELSE ValidateModel(With(m.mapping, "ewatercycle_config", filename))

\* _find_user_config: the first source for which Path.exists() holds.
RECURSIVE FindUserConfigFrom(_, _)
FindUserConfigFrom(sources, i) ==
    IF i > Len(sources) THEN None
    ELSE IF Exists(sources[i]) THEN sources[i]
    ELSE FindUserConfigFrom(sources, i + 1)

FindUserConfig(sources) == FindUserConfigFrom(sources, 1)

\* ----------------------------------------------------------- operations

\* One turn of the loop of Configuration.overwrite:
\* setattr(self, key, getattr(other, key)), unless an earlier one raised.
OverwriteStep(acc, other, key) ==
    IF acc.error # "none" THEN acc
    ELSE LET r == SetAttr(acc.inst, key, other[key]) IN
         [ r EXCEPT !.warnFile = IF @ # NoWarning THEN @ ELSE acc.warnFile ]

\* The keys Configuration.overwrite assigns: self.dict().keys().
OverwriteKeys == FieldOrder

\* Configuration.overwrite: the loop over the eight keys, in order; an
\* exception ends it with the earlier assignments kept.
RECURSIVE OverwriteFrom(_, _, _)
OverwriteFrom(acc, other, i) ==
    IF i > Len(OverwriteKeys) THEN acc
    ELSE OverwriteFrom(OverwriteStep(acc, other, OverwriteKeys[i]), other, i + 1)

Overwrite(self, other) ==
    OverwriteFrom([error |-> "none", inst |-> self, warnFile |-> NoWarning], other, 1)

\* load_from_file without its own test of path.exists().
LoadFromFileUnchecked(self, filename) ==
    LET newconfig == LoadUserConfig(ToAbsolutePath(filename, None)) IN
    IF newconfig.error # "none"
    THEN [error |-> newconfig.error, inst |-> self, warnFile |-> newconfig.warnFile]
    ELSE Overwrite(self, newconfig.inst)

\* Configuration.load_from_file
LoadFromFile(self, filename) ==
    LET path == ToAbsolutePath(filename, None) IN
    IF ~Exists(path)
    THEN [error |-> "FileNotFoundError", inst |-> self, warnFile |-> NoWarning]
    ELSE
      LET newconfig == LoadUserConfig(path) IN
      IF newconfig.error # "none"
      THEN [error |-> newconfig.error, inst |-> self, warnFile |-> newconfig.warnFile]
      ELSE
        LET o == Overwrite(self, newconfig.inst) IN
        [ o EXCEPT !.warnFile = IF @ # NoWarning THEN @ ELSE newconfig.warnFile ]

\* Configuration.reset
Reset(self) == Overwrite(self, ValidateModel(<<>>).inst)

\* Configuration.reload
Reload(self) ==
    LET filename == self["ewatercycle_config"] IN
    IF filename = None THEN Reset(self) ELSE LoadFromFile(self, filename)

\* Configuration.dump_to_yaml / _save_to_stream: the mapping of the YAML
\* text, without ewatercycle_config and without the fields that are None;
\* a parameter set is dumped as the mapping of its fields.
DumpToYaml(self) ==
    LET kept == { k \in FieldNames \ {"ewatercycle_config"} :
                    ~(k \in OptionalFields /\ self[k] = None) }
    IN [ k \in kept |->
           IF k = "parameter_sets"
           THEN { [ key |-> e.key,
                    ps |-> [ name |-> e.ps.name,
                             directory |-> e.ps.directory,
                             config |-> e.ps.config ] ] : e \in self[k] }
           ELSE self[k] ]

\* ----------------------------------------------------------------- inputs

\* A name that is not a field (the typo of the module's documentation).
ExtraName == "output_directory"

\* The values a caller supplies for each name: valid ones, a directory that
\* does not exist, a file where a directory is expected, the home shorthand,
\* parameter sets that resolve and that do not.
InputSeq(name) ==
    CASE name = "grdc_location" -> << >>
      [] name = "container_engine" -> << "apptainer" >>
      [] name = "apptainer_dir" -> << <<"~">> >>
      [] name = "singularity_dir" -> << <<"/", "d">>, <<"~">> >>
      [] name = "output_dir" -> << <<"/", "p", "a", "c.yaml">> >>
      [] name = "parameterset_dir" -> << <<"/", "p">>, <<"/", "no">> >>
      [] name = "parameter_sets" ->
            << { XEntry(<<"a">>, <<"a", "c.yaml">>) },
               { XEntry(<<"b">>, <<"b", "c.yaml">>) } >>
      [] name = "ewatercycle_config" -> << MY_CONFIG >>
      [] name = ExtraName -> << <<"/", "d">> >>

Inputs(name) == { InputSeq(name)[i] : i \in 1..Len(InputSeq(name)) }

AllNames == FieldNames \cup {ExtraName}

\* The keyword mappings over the names in S: one supplied value per name.
MappingsOver(S) ==
    LET choices == { c \in [S -> 1..Cardinality(AllNames)] :
                       \A k \in S : c[k] <= Len(InputSeq(k)) }
    IN { [k \in S |-> InputSeq(k)[c[k]]] : c \in choices }

\* The keyword mappings of at most MaxKeys names.
Kwargs ==
    UNION { MappingsOver(S) : S \in { T \in SUBSET AllNames : Cardinality(T) <= MaxKeys } }

LoadTargets == { USER_HOME_CONFIG, <<"my.yaml">>, BAD_CONFIG, NO_SUCH_FILE }

\* ----------------------------------------------- what an operation was given

PathFields == DirectoryFields \cup OptionalFields

\* The value names an entry that is missing or is of the wrong kind.
BadPath(name, value) ==
    LET p == ExpandUserInPaths(name, value) IN
    /\ name \in PathFields
    /\ p # None
    /\ IF name = "ewatercycle_config" THEN ~IsFile(p) ELSE ~IsDir(p)

\* Some supplied parameter set, resolved against root, is not on disk.
BadParameterSets(sets, root) ==
    \E e \in sets :
       \/ ~Exists(ToAbsolutePath(e.ps.directory, root))
       \/ ~Exists(ToAbsolutePath(e.ps.config, root))

NoObs ==
    [ sing |-> None, file |-> None, badpath |-> FALSE, extra |-> FALSE,
      badps |-> FALSE, other |-> None ]

\* What a construction or an assignment was given: input is the supplied
\* mapping, root the parameterset_dir the parameter sets resolve against;
\* sing is the singularity_dir of an operation that succeeded.
ObsOf(input, root, error) ==
    [ NoObs EXCEPT
        !.sing = IF error = "none" THEN Lookup(input, "singularity_dir", None) ELSE None,
        !.badpath = \E k \in DOMAIN input : BadPath(k, input[k]),
        !.extra = (DOMAIN input) \ FieldNames # {},
        !.badps = BadParameterSets(Lookup(input, "parameter_sets", {}), root) ]

Last(op, r, changed, obs) ==
    [ op |-> op, error |-> r.error, warnFile |-> r.warnFile, changed |-> changed,
      sing |-> obs.sing, file |-> obs.file, badpath |-> obs.badpath,
      extra |-> obs.extra, badps |-> obs.badps, other |-> obs.other ]

\* ----------------------------------------------------------------- actions

KINDS == {"absent", "file", "dir"}

Start ==
    /\ cfg = None
    /\ USER_CONFIG = None
    /\ pc = "import"
    /\ last = Last("none", [error |-> "none", warnFile |-> NoWarning], FALSE, NoObs)

\* Before the import, with neither well-known configuration file present.
Init ==
    /\ userKind = "absent"
    /\ sysKind = "absent"
    /\ Start

\* Before the import, with each well-known path absent, a file or a directory.
InitSources ==
    /\ userKind \in KINDS
    /\ sysKind \in KINDS
    /\ Start

\* Module import: USER_CONFIG = _find_user_config(_SOURCES); CFG =
\* Configuration(); if USER_CONFIG: CFG = Configuration._load_user_config(...).
\* An error of the load ends the import.
ImportModule ==
    /\ pc = "import"
    /\ LET uc == FindUserConfig(SOURCES)
           d == ValidateModel(<<>>)
           r == IF uc = None THEN d ELSE LoadUserConfig(uc)
       IN /\ USER_CONFIG' = uc
          /\ cfg' = IF r.error = "none" THEN r.inst ELSE d.inst
          /\ pc' = IF r.error = "none" THEN "ready" ELSE "failed"
          /\ last' = Last("import", r, TRUE, [NoObs EXCEPT !.file = uc])
    /\ UNCHANGED <<userKind, sysKind>>

\* Configuration(**kw): the instance under observation becomes the new one.
Construct(kw) ==
    /\ pc = "ready"
    /\ LET r == ValidateModel(kw)
           new == IF r.error = "none" THEN r.inst ELSE cfg
           root == ExpandUser(Lookup(kw, "parameterset_dir", Default("parameterset_dir")))
       IN /\ cfg' = new
          /\ last' = Last("construct", r, new # cfg, ObsOf(kw, root, r.error))
    /\ UNCHANGED <<userKind, sysKind, USER_CONFIG, pc>>

\* CFG.<name> = value
Assign(name, value) ==
    /\ pc = "ready"
    /\ LET r == SetAttr(cfg, name, value)
           input == [k \in {name} |-> value]
           root == ExpandUser(Lookup(input, "parameterset_dir", cfg["parameterset_dir"]))
       IN /\ cfg' = r.inst
          /\ last' = Last("setattr", r, r.inst # cfg, ObsOf(input, root, r.error))
    /\ UNCHANGED <<userKind, sysKind, USER_CONFIG, pc>>

\* CFG.overwrite(B) for a validly constructed B = Configuration(**kw).
OverwriteWith(kw) ==
    /\ pc = "ready"
    /\ LET b == ValidateModel(kw) IN
       /\ b.error = "none"
       /\ LET r == Overwrite(cfg, b.inst) IN
          /\ cfg' = r.inst
          /\ last' = Last("overwrite", r, r.inst # cfg, [NoObs EXCEPT !.other = b.inst])
    /\ UNCHANGED <<userKind, sysKind, USER_CONFIG, pc>>

\* CFG.load_from_file(filename)
LoadFromFileOp(filename) ==
    /\ pc = "ready"
    /\ LET r == LoadFromFile(cfg, filename) IN
       /\ cfg' = r.inst
       /\ last' = Last("load_from_file", r, r.inst # cfg, [NoObs EXCEPT !.file = filename])
    /\ UNCHANGED <<userKind, sysKind, USER_CONFIG, pc>>

\* CFG.reload()
ReloadOp ==
    /\ pc = "ready"
    /\ LET r == Reload(cfg) IN
       /\ cfg' = r.inst
       /\ last' = Last("reload", r, r.inst # cfg,
                       [NoObs EXCEPT !.file = cfg["ewatercycle_config"]])
    /\ UNCHANGED <<userKind, sysKind, USER_CONFIG, pc>>

\* CFG.reset()
ResetOp ==
    /\ pc = "ready"
    /\ LET r == Reset(cfg) IN
       /\ cfg' = r.inst
       /\ last' = Last("reset", r, r.inst # cfg, NoObs)
    /\ UNCHANGED <<userKind, sysKind, USER_CONFIG, pc>>

\* CFG.dump_to_yaml()
DumpOp ==
    /\ pc = "ready"
    /\ last' = Last("dump_to_yaml", [error |-> "none", warnFile |-> NoWarning], FALSE, NoObs)
    /\ UNCHANGED <<cfg, userKind, sysKind, USER_CONFIG, pc>>

Next ==
    \/ ImportModule
    \/ \E kw \in Kwargs : Construct(kw)
    \/ \E name \in AllNames : \E value \in Inputs(name) : Assign(name, value)
    \/ \E kw \in Kwargs : OverwriteWith(kw)
    \/ \E filename \in LoadTargets : LoadFromFileOp(filename)
    \/ ReloadOp
    \/ ResetOp
    \/ DumpOp

Spec == Init /\ [][Next]_vars

\* The operations that take no keyword mapping, from every start-up layout.
NextSources ==
    \/ ImportModule
    \/ \E name \in AllNames : \E value \in Inputs(name) : Assign(name, value)
    \/ \E filename \in LoadTargets : LoadFromFileOp(filename)
    \/ ReloadOp
    \/ ResetOp
    \/ DumpOp

SpecSources == InitSources /\ [][NextSources]_vars

\* ------------------------------------------------------------ properties

\* The instance Configuration() yields: every field at its default.
Defaults == ValidateModel(<<>>).inst

ConstructOrAssign == last.op \in {"construct", "setattr"}

\* C1: A.overwrite(B), for validly constructed A and B, completes without
\* raising and leaves every field of A equal to the corresponding field of B.
C1_OverwriteCopiesEveryField ==
    last.op = "overwrite" => last.error = "none" /\ cfg = last.other

\* C2: after every successful construction or assignment singularity_dir is
\* None; when singularity_dir = D was supplied, apptainer_dir is D and a
\* deprecation warning was emitted.
C2_SingularityDirMigrated ==
    (ConstructOrAssign /\ last.error = "none") =>
        /\ cfg["singularity_dir"] = None
        /\ last.sing # None =>
              cfg["apptainer_dir"] = last.sing /\ last.warnFile # NoWarning

\* A construction that supplied singularity_dir = /d has succeeded and
\* moved it into apptainer_dir.
C2_Witness ==
    /\ last.op = "construct"
    /\ last.error = "none"
    /\ last.sing = <<"/", "d">>
    /\ cfg["apptainer_dir"] = <<"/", "d">>

\* C3: a construction or assignment whose path-typed field names an entry
\* that is missing or of the wrong kind is rejected with a validation error,
\* and the instance keeps every prior value.
C3_BadPathIsValidationError ==
    (ConstructOrAssign /\ last.badpath) =>
        last.error = "ValidationError" /\ ~last.changed

\* C4: constructing with, or assigning, a name outside the declared fields
\* fails with a validation error and changes nothing.
C4_ExtraFieldIsValidationError ==
    (ConstructOrAssign /\ last.extra) =>
        last.error = "ValidationError" /\ ~last.changed

\* C5: load_from_file of a path that does not exist fails with
\* FileNotFoundError and leaves every field of the receiver unchanged.
C5_MissingFileError ==
    (last.op = "load_from_file" /\ ~Exists(ToAbsolutePath(last.file, None))) =>
        last.error = "FileNotFoundError" /\ ~last.changed

\* load_from_file was given the missing /no/such.yaml and raised.
C5_Witness ==
    /\ last.op = "load_from_file"
    /\ last.file = NO_SUCH_FILE
    /\ last.error = "FileNotFoundError"
    /\ ~last.changed

\* C6: reload() with ewatercycle_config None leaves every field at its
\* default; with ewatercycle_config F it leaves every field equal to that of
\* a fresh load of F.
C6_ReloadIsFreshLoad ==
    (last.op = "reload" /\ last.error = "none") =>
        IF last.file = None THEN cfg = Defaults
        ELSE cfg = LoadUserConfig(last.file).inst

\* C7: source resolution returns the user-level candidate when it is a
\* regular file, else the system-level one when that is a regular file, else
\* none; with none the process-wide instance is built from defaults.
C7_FirstRegularFile ==
    pc # "import" =>
        /\ USER_CONFIG = IF userKind = "file" THEN USER_HOME_CONFIG
                         ELSE IF sysKind = "file" THEN SYSTEM_CONFIG
                         ELSE None
        /\ (last.op = "import" /\ USER_CONFIG = None) =>
              pc = "ready" /\ cfg = Defaults

\* C8: after a successful construction or assignment every parameter set
\* carries its key as name and absolute, existing directory and config; a
\* construction or assignment with an entry whose resolved directory or
\* config does not exist fails with a validation error.
C8_ParameterSetsResolved ==
    ConstructOrAssign =>
        /\ last.error = "none" =>
              \A e \in cfg["parameter_sets"] :
                 /\ e.ps.name = e.key
                 /\ IsAbsolute(e.ps.directory) /\ Exists(e.ps.directory)
                 /\ IsAbsolute(e.ps.config) /\ Exists(e.ps.config)
        /\ last.badps => last.error = "ValidationError"

\* C9: constructing from the mapping of C.dump_to_yaml() succeeds and
\* yields fields, other than ewatercycle_config, equal to C's; the dump
\* holds neither ewatercycle_config nor a field that is None.
C9_DumpRoundTrip ==
    last.op = "dump_to_yaml" =>
        LET d == DumpToYaml(cfg)
            r == ValidateModel(d)
        IN /\ "ewatercycle_config" \notin DOMAIN d
           /\ \A k \in OptionalFields \cap DOMAIN d : d[k] # None
           /\ r.error = "none"
           /\ \A k \in FieldNames \ {"ewatercycle_config"} : r.inst[k] = cfg[k]

\* C10: when the migration fires the warning names the source file of the
\* instance, or "in-memory object" when ewatercycle_config is None.
C10_WarningNamesSource ==
    (ConstructOrAssign /\ last.sing # None) =>
        last.warnFile = IF cfg["ewatercycle_config"] # None
                        THEN cfg["ewatercycle_config"]
                        ELSE InMemoryObject

====
